---- MODULE Spec2Model ----
\* A model of reviewdog's parser.go: the parser factory NewParser and the three
\* parsers (ErrorformatParser, CheckStyleParser, RDJSONLParser).
EXTENDS Integers, Sequences, FiniteSets, TLC

\* ---------------------------------------------------------------- bounds
MaxRules == 2      \* longest Errorformat list a caller supplies
MaxCalls == 2      \* NewParser calls made on one ParserOpt object
MaxFiles == 2      \* <file> elements of a checkstyle document
MaxErrors == 2     \* <error> elements of one <file>
MaxBytes == 4      \* symbols of an rdjsonl stream
MaxEntries == 3    \* entries the errorformat scanner yields

VARIABLES
  \* --- NewParser and its caller
  opt,        \* the *ParserOpt the caller holds: [FormatName, Errorformat]
  before,     \* the value of *opt when the latest NewParser call was entered
  ret,        \* what the latest NewParser call returned: [parser, err]
  first,      \* what the first NewParser call on this object returned
  ncalls,     \* NewParser calls made so far on this object
  \* --- CheckStyleParser.Parse
  csdoc,      \* the document the producer meant to write: files with errors
  csdamage,   \* how the byte stream departs from the document
  csr,        \* r: the stream, as XML tokens
  cs,         \* cs: the decoded CheckStyleResult
  csi, csj,   \* positions of the two range loops
  csrs,       \* rs
  csret,      \* the returned ([]*CheckResult, error), once returned
  cspc,
  \* --- RDJSONLParser.Parse
  rdr,        \* r: the whole stream, as symbols
  rdfail,     \* symbols the reader hands over before its Read fails (NoFail: it never fails)
  rdpos,      \* symbols the bufio.Scanner has consumed
  results,    \* results
  rdret,      \* the returned ([]*CheckResult, error), once returned
  rdpc,
  \* --- ErrorformatParser.Parse
  entries,    \* what the errorformat scanner yields on r, in scan order
  efi,        \* entries taken so far
  efrs,       \* rs
  efret,      \* the returned ([]*CheckResult, error), once returned
  efpc

vars == <<opt, before, ret, first, ncalls,
          csdoc, csdamage, csr, cs, csi, csj, csrs, csret, cspc,
          rdr, rdfail, rdpos, results, rdret, rdpc,
          entries, efi, efrs, efret, efpc>>

factoryVars == <<opt, before, ret, first, ncalls>>
csVars == <<csdoc, csdamage, csr, cs, csi, csj, csrs, csret, cspc>>
rdVars == <<rdr, rdfail, rdpos, results, rdret, rdpc>>
efVars == <<entries, efi, efrs, efret, efpc>>

\* Sequences over S of length at most n.
SeqUpTo(S, n) == UNION {[1..k -> S] : k \in 0..n}

\* int32(x): Go's conversion of an int to a 32-bit signed integer. It changes
\* only values outside the 32-bit range; every line and column number of this
\* model lies inside it (TLC's integers are themselves 32-bit).
Int32(x) == x

\* ================================================================ NewParser

\* fmts.DefinedFmts(): the catalog of named errorformats (two of its entries).
DefinedFmts ==
  [n \in {"golint", "tsc"} |->
     IF n = "golint" THEN [Errorformat |-> <<"%f:%l:%c: %m">>]
     ELSE [Errorformat |-> <<"%E%f(%l,%c): error %m", "%Z%m">>]]

\* The rule strings a caller may put in ParserOpt.Errorformat. "%y" is no
\* errorformat item, so errorformat.NewErrorformat rejects a list holding it.
Rules == {"%f:%l:%c: %m", "%f:%l: %m", "%y"}
FormatNames == {"", "checkstyle", "rdjsonl", "golint", "tsc", "nosuch"}

\* errorformat.NewErrorformat(efms) returns an error when a rule does not compile.
Compiles(efms) == \A i \in 1..Len(efms) : efms[i] # "%y"

NewCheckStyleParser == "CheckStyleParser"
NewRDJSONLParser == "RDJSONLParser"
NewErrorformatParser == "ErrorformatParser"

NewErrorformatParserString(efms) ==
  IF ~Compiles(efms)
    THEN [parser |-> "nil", err |-> "compile"]
    ELSE [parser |-> NewErrorformatParser, err |-> "nil"]

\* Faulty variant: the catalog is not consulted and the list stays as supplied.
UseDefinedKeepsOpt(o) == o.Errorformat
\* opt.Errorformat after the "use defined errorformat" block: for a catalog
\* name, the catalog's list, which is stored into the caller's ParserOpt.
UseDefined(o) ==
  IF o.FormatName # "" /\ o.FormatName \in DOMAIN DefinedFmts
    THEN DefinedFmts[o.FormatName].Errorformat
    ELSE o.Errorformat

\* The switch on name and what follows it (lines 31-49): the returned pair and
\* the value *opt is left with.
AfterConflictCheck(o) ==
  LET name == o.FormatName IN
  IF name = "checkstyle" THEN [parser |-> NewCheckStyleParser, err |-> "nil", opt |-> o]
  ELSE IF name = "rdjsonl" THEN [parser |-> NewRDJSONLParser, err |-> "nil", opt |-> o]
  ELSE IF name # "" /\ name \notin DOMAIN DefinedFmts
    THEN [parser |-> "nil", err |-> "unsupported", opt |-> o]
  ELSE LET o2 == [o EXCEPT !.Errorformat = UseDefined(o)] IN
       IF Len(o2.Errorformat) = 0
         THEN [parser |-> "nil", err |-> "empty", opt |-> o2]
         ELSE LET p == NewErrorformatParserString(o2.Errorformat)
              IN [parser |-> p.parser, err |-> p.err, opt |-> o2]

\* Faulty variant: the switch on the built-in names comes before the conflict check.
NewParserSwitchFirst(o) ==
  IF o.FormatName \in {"checkstyle", "rdjsonl"} THEN AfterConflictCheck(o)
  ELSE IF o.FormatName # "" /\ Len(o.Errorformat) > 0
    THEN [parser |-> "nil", err |-> "conflict", opt |-> o]
  ELSE AfterConflictCheck(o)
\* NewParser(opt): the returned pair and the value *opt is left with.
NewParser(o) ==
  IF o.FormatName # "" /\ Len(o.Errorformat) > 0
    THEN [parser |-> "nil", err |-> "conflict", opt |-> o]
    ELSE AfterConflictCheck(o)

NoRet == [parser |-> "nil", err |-> "none"]

\* The caller calls NewParser(opt) on the ParserOpt object it holds.
CallNewParser ==
  /\ ncalls < MaxCalls
  /\ LET r == NewParser(opt) IN
       /\ before' = opt
       /\ opt' = r.opt
       /\ ret' = [parser |-> r.parser, err |-> r.err]
       /\ first' = IF ncalls = 0 THEN [parser |-> r.parser, err |-> r.err] ELSE first
  /\ ncalls' = ncalls + 1
  /\ UNCHANGED <<csVars, rdVars, efVars>>

\* ================================================================ CheckStyleParser

\* The checkstyle wire format (CheckStyleResult, CheckStyleFile, CheckStyleError):
\* attribute values are text; numbers are sequences of characters.
ErrorAttrs ==
  { [line |-> <<"3">>, column |-> <<"5">>, message |-> "unused var",
     severity |-> "error", source |-> "lint/unused"],
    [line |-> <<"1", "2">>, column |-> <<>>, message |-> "shadowed",
     severity |-> "warning", source |-> ""] }
FileNames == {"a.go", "b.go"}
FileElems == [name : FileNames, errors : SeqUpTo(ErrorAttrs, MaxErrors)]
Documents == SeqUpTo(FileElems, MaxFiles)
Damages == {"none", "stray", "truncated", "badroot", "badline"}

NoAttrs == [name |-> "", line |-> <<>>, column |-> <<>>, message |-> "",
            severity |-> "", source |-> ""]
Open(n, a) == [k |-> "open", name |-> n, attrs |-> a]
Close(n) == [k |-> "close", name |-> n, attrs |-> NoAttrs]
Empty(n, a) == [k |-> "empty", name |-> n, attrs |-> a]

ErrorToken(e, bad) ==
  Empty("error", [name |-> "", line |-> IF bad THEN <<"x">> ELSE e.line,
                  column |-> e.column, message |-> e.message,
                  severity |-> e.severity, source |-> e.source])

\* <file name=...> <error .../>... </file>; firstBad spoils the line attribute
\* of the file's first error.
FileTokens(f, firstBad) ==
  <<Open("file", [NoAttrs EXCEPT !.name = f.name])>>
  \o [j \in 1..Len(f.errors) |-> ErrorToken(f.errors[j], firstBad /\ j = 1)]
  \o <<Close("file")>>

RECURSIVE DocTokens(_, _, _)
DocTokens(doc, i, spoil) ==
  IF i > Len(doc) THEN <<>>
  ELSE LET hit == spoil /\ Len(doc[i].errors) > 0
       IN FileTokens(doc[i], hit) \o DocTokens(doc, i + 1, spoil /\ ~hit)

\* The token stream of a document, damaged as said.
Stream(doc, damage) ==
  LET root == IF damage = "badroot" THEN "testsuites" ELSE "checkstyle"
      body == DocTokens(doc, 1, damage = "badline")
      full == <<Open(root, NoAttrs)>>
              \o (IF damage = "stray" THEN <<Empty("property", NoAttrs)>> ELSE <<>>)
              \o body \o <<Close(root)>>
  IN IF damage = "truncated" THEN SubSeq(full, 1, Len(full) - 1) ELSE full

\* strconv.Atoi on attribute text.
DigitVal == [c \in {"0", "1", "2", "3", "4", "5", "6", "7", "8", "9"} |->
              CASE c = "0" -> 0 [] c = "1" -> 1 [] c = "2" -> 2 [] c = "3" -> 3
                [] c = "4" -> 4 [] c = "5" -> 5 [] c = "6" -> 6 [] c = "7" -> 7
                [] c = "8" -> 8 [] c = "9" -> 9]
RECURSIVE AtoiFrom(_, _, _)
AtoiFrom(s, i, acc) ==
  IF i > Len(s) THEN [ok |-> TRUE, val |-> acc]
  ELSE IF s[i] \notin DOMAIN DigitVal THEN [ok |-> FALSE, val |-> 0]
  ELSE AtoiFrom(s, i + 1, acc * 10 + DigitVal[s[i]])
\* An int attribute: absent (<<>>) leaves the field 0.
IntAttr(s) == IF Len(s) = 0 THEN [ok |-> TRUE, val |-> 0] ELSE AtoiFrom(s, 1, 0)

\* xml.NewDecoder(r).Decode(cs), one token at a time. stack: the open elements;
\* elements that no field of the structs names are skipped.
XmlInit == [stack |-> <<>>, files |-> <<>>, cur |-> [Name |-> "", Errors |-> <<>>],
            err |-> "nil", done |-> FALSE]
Pop(stack) == SubSeq(stack, 1, Len(stack) - 1)

XmlError(st, a) ==
  LET l == IntAttr(a.line)
      c == IntAttr(a.column)
  IN IF ~l.ok \/ ~c.ok THEN [st EXCEPT !.err = "strconv.Atoi: invalid syntax"]
     ELSE [st EXCEPT !.cur.Errors =
             Append(@, [Column |-> c.val, Line |-> l.val, Message |-> a.message,
                        Severity |-> a.severity, Source |-> a.source])]

XmlStep(st, t) ==
  LET depth == Len(st.stack)
      inRoot == st.stack = <<"checkstyle">>
      inFile == st.stack = <<"checkstyle", "file">>
  IN CASE t.k = "open" ->
            IF depth = 0 /\ t.name # "checkstyle"
              THEN [st EXCEPT !.err = "expected element type <checkstyle>"]
            ELSE IF inRoot /\ t.name = "file"
              THEN [st EXCEPT !.stack = Append(@, t.name),
                              !.cur = [Name |-> t.attrs.name, Errors |-> <<>>]]
            ELSE [st EXCEPT !.stack = Append(@, t.name)]
       [] t.k = "close" ->
            IF depth = 0 \/ st.stack[depth] # t.name
              THEN [st EXCEPT !.err = "XML syntax error"]
            ELSE IF inFile
              THEN [st EXCEPT !.stack = Pop(@), !.files = Append(@, st.cur)]
            ELSE [st EXCEPT !.stack = Pop(@), !.done = (depth = 1)]
       [] t.k = "empty" ->
            IF depth = 0
              THEN IF t.name = "checkstyle" THEN [st EXCEPT !.done = TRUE]
                   ELSE [st EXCEPT !.err = "expected element type <checkstyle>"]
            ELSE IF inFile /\ t.name = "error" THEN XmlError(st, t.attrs)
            ELSE IF inRoot /\ t.name = "file"
              THEN [st EXCEPT !.files =
                      Append(@, [Name |-> t.attrs.name, Errors |-> <<>>])]
            ELSE st

RECURSIVE XmlDecode(_, _, _)
XmlDecode(toks, i, st) ==
  IF st.err # "nil" \/ st.done THEN st
  ELSE IF i > Len(toks) THEN [st EXCEPT !.err = "unexpected EOF"]
  ELSE XmlDecode(toks, i + 1, XmlStep(st, toks[i]))

\* fmt.Sprintf("%v:%d:%d: %v: %v (%v)", ...), as the pieces it joins.
Sprintf(name, line, column, severity, message, source) ==
  <<name, ":", ToString(line), ":", ToString(column), ": ", severity, ": ",
    message, " (", source, ")">>

\* Faulty variant: Path is taken from the error's source, not from the file.
CheckResultPathFromSource(file, cerr) ==
  [Diagnostic |-> [Location |-> [Path |-> cerr.Source,
                                 Range |-> [Start |-> [Line |-> Int32(cerr.Line),
                                                       Column |-> Int32(cerr.Column)]]],
                   Message |-> cerr.Message],
   Lines |-> <<Sprintf(file.Name, cerr.Line, cerr.Column, cerr.Severity,
                       cerr.Message, cerr.Source)>>]
\* The CheckResult appended for one error of one file.
CheckStyleCheckResult(file, cerr) ==
  [Diagnostic |-> [Location |-> [Path |-> file.Name,
                                 Range |-> [Start |-> [Line |-> Int32(cerr.Line),
                                                       Column |-> Int32(cerr.Column)]]],
                   Message |-> cerr.Message],
   Lines |-> <<Sprintf(file.Name, cerr.Line, cerr.Column, cerr.Severity,
                       cerr.Message, cerr.Source)>>]

NoResult == [rs |-> <<>>, err |-> "none"]

\* xml.NewDecoder(r).Decode(cs) fails: return nil, err.
CSDecodeErr ==
  /\ cspc = "decode"
  /\ LET st == XmlDecode(csr, 1, XmlInit) IN
       /\ st.err # "nil"
       /\ csret' = [rs |-> <<>>, err |-> st.err]
  /\ cspc' = "done"
  /\ UNCHANGED <<csdoc, csdamage, csr, cs, csi, csj, csrs, factoryVars, rdVars, efVars>>

\* xml.NewDecoder(r).Decode(cs) succeeds.
CSDecodeOk ==
  /\ cspc = "decode"
  /\ LET st == XmlDecode(csr, 1, XmlInit) IN
       /\ st.err = "nil"
       /\ cs' = [Files |-> st.files]
  /\ cspc' = "range"
  /\ csi' = 1
  /\ csj' = 1
  /\ UNCHANGED <<csdoc, csdamage, csr, csrs, csret, factoryVars, rdVars, efVars>>

\* One pass of the inner loop: rs = append(rs, &CheckResult{...}).
CSAppend ==
  /\ cspc = "range"
  /\ csi <= Len(cs.Files)
  /\ csj <= Len(cs.Files[csi].Errors)
  /\ csrs' = Append(csrs, CheckStyleCheckResult(cs.Files[csi], cs.Files[csi].Errors[csj]))
  /\ csj' = csj + 1
  /\ UNCHANGED <<csdoc, csdamage, csr, cs, csi, csret, cspc, factoryVars, rdVars, efVars>>

\* The inner loop is exhausted: on to the next file.
CSNextFile ==
  /\ cspc = "range"
  /\ csi <= Len(cs.Files)
  /\ csj > Len(cs.Files[csi].Errors)
  /\ csi' = csi + 1
  /\ csj' = 1
  /\ UNCHANGED <<csdoc, csdamage, csr, cs, csrs, csret, cspc, factoryVars, rdVars, efVars>>

\* return rs, nil
CSReturn ==
  /\ cspc = "range"
  /\ csi > Len(cs.Files)
  /\ csret' = [rs |-> csrs, err |-> "nil"]
  /\ cspc' = "done"
  /\ UNCHANGED <<csdoc, csdamage, csr, cs, csi, csj, csrs, factoryVars, rdVars, efVars>>

\* ================================================================ RDJSONLParser

\* The stream as symbols: two short well-formed records, a well-formed record
\* longer than bufio.MaxScanTokenSize, text that is no JSON, and the newline
\* (lines end in "\n"; no stream here holds a carriage return).
RecA == "{\"message\":\"a\"}"
RecB == "{\"message\":\"b\"}"
RecHuge == "{\"message\":\"aaa...\"}"
Garbage == "oops"
NL == "\n"
CR == "\r"
Alphabet == {RecA, RecB, RecHuge, Garbage, NL}
ReadFailures(r) ==
  {[fails |-> FALSE, at |-> 0]} \cup {[fails |-> TRUE, at |-> n] : n \in 0..Len(r)}

\* What the reader hands over before EOF or before its Read fails.
Delivered(r, f) == IF f.fails THEN SubSeq(r, 1, f.at) ELSE r

\* json.Unmarshal(line, d) into an rdf.Diagnostic.
Unmarshal(line) ==
  IF Len(line) = 0 THEN [ok |-> FALSE, err |-> "unexpected end of JSON input", d |-> ""]
  ELSE IF Len(line) > 1
    THEN [ok |-> FALSE,
          err |-> IF line[1] = Garbage THEN "invalid character 'o'"
                  ELSE "invalid character after top-level value", d |-> ""]
  ELSE IF line[1] = RecA THEN [ok |-> TRUE, err |-> "nil", d |-> "a"]
  ELSE IF line[1] = RecB THEN [ok |-> TRUE, err |-> "nil", d |-> "b"]
  ELSE IF line[1] = RecHuge THEN [ok |-> TRUE, err |-> "nil", d |-> "aaa..."]
  ELSE [ok |-> FALSE, err |-> "invalid character 'o'", d |-> ""]

\* Index of the first newline of s, 0 when it has none.
IndexNL(s) ==
  IF \E i \in 1..Len(s) : s[i] = NL
    THEN CHOOSE i \in 1..Len(s) : s[i] = NL /\ \A j \in 1..(i - 1) : s[j] # NL
    ELSE 0

\* bufio's dropCR.
dropCR(s) == IF Len(s) > 0 /\ s[Len(s)] = CR THEN SubSeq(s, 1, Len(s) - 1) ELSE s

\* A line that does not fit the scanner's buffer (bufio.MaxScanTokenSize).
TooLong(line) == \E i \in 1..Len(line) : line[i] = RecHuge

\* s.Scan() of the bufio.Scanner (split function bufio.ScanLines) with pos
\* symbols of data consumed: whether a token is delivered, the token, the new
\* position, and s.Err() when no token is delivered.
Scan(data, pos, readFailed) ==
  LET rest == SubSeq(data, pos + 1, Len(data))
      nl == IndexNL(rest)
      line == IF nl > 0 THEN SubSeq(rest, 1, nl - 1) ELSE rest
  IN IF Len(rest) = 0
       THEN [ok |-> FALSE, token |-> <<>>, pos |-> pos,
             err |-> IF readFailed THEN "read error" ELSE "nil"]
     ELSE IF TooLong(line)
       THEN [ok |-> FALSE, token |-> <<>>, pos |-> pos, err |-> "bufio.Scanner: token too long"]
     ELSE [ok |-> TRUE, token |-> dropCR(line),
           pos |-> pos + (IF nl > 0 THEN nl ELSE Len(rest)), err |-> "nil"]

RDScan == Scan(Delivered(rdr, rdfail), rdpos, rdfail.fails)

\* What a failed json.Unmarshal makes Parse return.
DecodeErrReturn(rs, err) == [rs |-> <<>>, err |-> err]

\* s.Scan() delivers a line and json.Unmarshal accepts it: append and go on.
RDAppend ==
  /\ rdpc = "scan"
  /\ RDScan.ok
  /\ LET u == Unmarshal(RDScan.token) IN
       /\ u.ok
       /\ results' = Append(results, [Diagnostic |-> u.d, Lines |-> <<RDScan.token>>])
  /\ rdpos' = RDScan.pos
  /\ UNCHANGED <<rdr, rdfail, rdret, rdpc, factoryVars, csVars, efVars>>

\* s.Scan() delivers a line and json.Unmarshal rejects it: return nil, err.
RDDecodeErr ==
  /\ rdpc = "scan"
  /\ RDScan.ok
  /\ LET u == Unmarshal(RDScan.token) IN
       /\ ~u.ok
       /\ rdret' = DecodeErrReturn(results, u.err)
  /\ rdpos' = RDScan.pos
  /\ rdpc' = "done"
  /\ UNCHANGED <<rdr, rdfail, results, factoryVars, csVars, efVars>>

\* s.Scan() returns false: return results, nil (s.Err() is not looked at).
RDReturn ==
  /\ rdpc = "scan"
  /\ ~RDScan.ok
  /\ rdret' = [rs |-> results, err |-> "nil"]
  /\ rdpc' = "done"
  /\ UNCHANGED <<rdr, rdfail, rdpos, results, factoryVars, csVars, efVars>>

\* ================================================================ ErrorformatParser

\* Entries the errorformat scanner can yield: a one-line match, a multi-line
\* match, and a line no rule matches.
Entries ==
  { [Valid |-> TRUE, Filename |-> "main.go", Lnum |-> 10, Col |-> 2,
     Text |-> "missing return", Lines |-> <<"main.go:10:2: missing return">>],
    [Valid |-> TRUE, Filename |-> "a.go", Lnum |-> 3, Col |-> 0,
     Text |-> "unused", Lines |-> <<"a.go:3: unused", "  x := 1">>],
    [Valid |-> FALSE, Filename |-> "", Lnum |-> 0, Col |-> 0,
     Text |-> "", Lines |-> <<"ok  pkg 0.01s">>] }

\* Faulty variant: the Valid flag is not looked at.
KeepAll(e) == TRUE
\* if e.Valid
Keep(e) == e.Valid

\* The CheckResult built from an entry.
ErrorformatCheckResult(e) ==
  [Diagnostic |-> [Location |-> [Path |-> e.Filename,
                                 Range |-> [Start |-> [Line |-> Int32(e.Lnum),
                                                       Column |-> Int32(e.Col)]]],
                   Message |-> e.Text],
   Lines |-> e.Lines]

\* s.Scan() is true and the entry is valid: append.
EfmAppend ==
  /\ efpc = "scan"
  /\ efi < Len(entries)
  /\ Keep(entries[efi + 1])
  /\ efrs' = Append(efrs, ErrorformatCheckResult(entries[efi + 1]))
  /\ efi' = efi + 1
  /\ UNCHANGED <<entries, efret, efpc, factoryVars, csVars, rdVars>>

\* s.Scan() is true and the entry is not valid: nothing is appended.
EfmSkip ==
  /\ efpc = "scan"
  /\ efi < Len(entries)
  /\ ~Keep(entries[efi + 1])
  /\ efi' = efi + 1
  /\ UNCHANGED <<entries, efrs, efret, efpc, factoryVars, csVars, rdVars>>

\* s.Scan() is false: return rs, nil.
EfmReturn ==
  /\ efpc = "scan"
  /\ efi = Len(entries)
  /\ efret' = [rs |-> efrs, err |-> "nil"]
  /\ efpc' = "done"
  /\ UNCHANGED <<entries, efi, efrs, factoryVars, csVars, rdVars>>

\* ================================================================ specifications

\* A caller holds a ParserOpt; no parser is running.
InitFactory ==
  /\ opt \in [FormatName : FormatNames, Errorformat : SeqUpTo(Rules, MaxRules)]
  /\ before = opt
  /\ ret = NoRet
  /\ first = NoRet
  /\ ncalls = 0
  /\ csdoc = <<>>
  /\ csdamage = "none"
  /\ csr = <<>>
  /\ cs = [Files |-> <<>>]
  /\ csi = 1
  /\ csj = 1
  /\ csrs = <<>>
  /\ csret = NoResult
  /\ cspc = "idle"
  /\ rdr = <<>>
  /\ rdfail = [fails |-> FALSE, at |-> 0]
  /\ rdpos = 0
  /\ results = <<>>
  /\ rdret = NoResult
  /\ rdpc = "idle"
  /\ entries = <<>>
  /\ efi = 0
  /\ efrs = <<>>
  /\ efret = NoResult
  /\ efpc = "idle"

FactoryNext == CallNewParser
SpecFactory == InitFactory /\ [][FactoryNext]_vars

\* CheckStyleParser.Parse is entered with a stream.
InitCheckStyle ==
  /\ opt = [FormatName |-> "", Errorformat |-> <<>>]
  /\ before = opt
  /\ ret = NoRet
  /\ first = NoRet
  /\ ncalls = 0
  /\ csdoc \in Documents
  /\ csdamage \in Damages
  /\ csdamage = "badline" => \E i \in 1..Len(csdoc) : Len(csdoc[i].errors) > 0
  /\ csr = Stream(csdoc, csdamage)
  /\ cs = [Files |-> <<>>]
  /\ csi = 1
  /\ csj = 1
  /\ csrs = <<>>
  /\ csret = NoResult
  /\ cspc = "decode"
  /\ rdr = <<>>
  /\ rdfail = [fails |-> FALSE, at |-> 0]
  /\ rdpos = 0
  /\ results = <<>>
  /\ rdret = NoResult
  /\ rdpc = "idle"
  /\ entries = <<>>
  /\ efi = 0
  /\ efrs = <<>>
  /\ efret = NoResult
  /\ efpc = "idle"

CSNext == CSDecodeErr \/ CSDecodeOk \/ CSAppend \/ CSNextFile \/ CSReturn
SpecCheckStyle == InitCheckStyle /\ [][CSNext]_vars

\* RDJSONLParser.Parse is entered with a stream.
InitRDJSONL ==
  /\ opt = [FormatName |-> "", Errorformat |-> <<>>]
  /\ before = opt
  /\ ret = NoRet
  /\ first = NoRet
  /\ ncalls = 0
  /\ csdoc = <<>>
  /\ csdamage = "none"
  /\ csr = <<>>
  /\ cs = [Files |-> <<>>]
  /\ csi = 1
  /\ csj = 1
  /\ csrs = <<>>
  /\ csret = NoResult
  /\ cspc = "idle"
  /\ rdr \in SeqUpTo(Alphabet, MaxBytes)
  /\ rdfail \in ReadFailures(rdr)
  /\ rdpos = 0
  /\ results = <<>>
  /\ rdret = NoResult
  /\ rdpc = "scan"
  /\ entries = <<>>
  /\ efi = 0
  /\ efrs = <<>>
  /\ efret = NoResult
  /\ efpc = "idle"

RDNext == RDAppend \/ RDDecodeErr \/ RDReturn
SpecRDJSONL == InitRDJSONL /\ [][RDNext]_vars

\* ErrorformatParser.Parse is entered; the scanner will yield entries.
InitErrorformat ==
  /\ opt = [FormatName |-> "", Errorformat |-> <<>>]
  /\ before = opt
  /\ ret = NoRet
  /\ first = NoRet
  /\ ncalls = 0
  /\ csdoc = <<>>
  /\ csdamage = "none"
  /\ csr = <<>>
  /\ cs = [Files |-> <<>>]
  /\ csi = 1
  /\ csj = 1
  /\ csrs = <<>>
  /\ csret = NoResult
  /\ cspc = "idle"
  /\ rdr = <<>>
  /\ rdfail = [fails |-> FALSE, at |-> 0]
  /\ rdpos = 0
  /\ results = <<>>
  /\ rdret = NoResult
  /\ rdpc = "idle"
  /\ entries \in SeqUpTo(Entries, MaxEntries)
  /\ efi = 0
  /\ efrs = <<>>
  /\ efret = NoResult
  /\ efpc = "scan"

EfmNext == EfmAppend \/ EfmSkip \/ EfmReturn
SpecErrorformat == InitErrorformat /\ [][EfmNext]_vars

\* ================================================================ claims: NewParser

\* Exactly one of FormatName and Errorformat is set.
ExactlyOneSet(o) == (o.FormatName # "") # (Len(o.Errorformat) > 0)
\* FormatName, when set, is a built-in or a catalog name.
Resolvable(o) ==
  o.FormatName \in {"", "checkstyle", "rdjsonl"} \cup DOMAIN DefinedFmts

\* C1: a NewParser call entered with a non-empty FormatName and a non-empty
\* Errorformat returns the configuration-conflict error and no parser, whatever
\* the name (built-in, catalog name or unknown) and whatever the rules.
C1_ConflictWins ==
  (ncalls >= 1 /\ before.FormatName # "" /\ Len(before.Errorformat) > 0)
    => (ret.err = "conflict" /\ ret.parser = "nil")

\* A call with the built-in name "checkstyle" and a rule list has returned the conflict.
C1_Witness ==
  /\ ncalls >= 1
  /\ before.FormatName = "checkstyle"
  /\ Len(before.Errorformat) > 0
  /\ ret.err = "conflict"

\* C2 as stated: every call with exactly one of FormatName and Errorformat set,
\* and a resolvable FormatName, returns a parser and a nil error.
C2_AsStated ==
  (ncalls >= 1 /\ ExactlyOneSet(before) /\ Resolvable(before))
    => (ret.err = "nil" /\ ret.parser # "nil")

\* C2 amended: every call with exactly one of FormatName and Errorformat set,
\* a resolvable FormatName, and supplied rules that all compile, returns a
\* parser and a nil error.
C2_SucceedsWhenRulesCompile ==
  (ncalls >= 1 /\ ExactlyOneSet(before) /\ Resolvable(before)
     /\ Compiles(before.Errorformat))
    => (ret.err = "nil" /\ ret.parser # "nil")

\* A call with a catalog name alone has returned an ErrorformatParser.
C2_Witness ==
  /\ ncalls >= 1
  /\ before.FormatName = "golint"
  /\ Len(before.Errorformat) = 0
  /\ ret.err = "nil"
  /\ ret.parser = "ErrorformatParser"

\* C9: a NewParser call leaves the caller's ParserOpt as it found it.
C9_OptUnchanged == ncalls >= 1 => opt = before

\* C10: every NewParser call on one ParserOpt object returns the outcome the
\* first call on it returned.
C10_SameOutcomeAsFirst == ncalls >= 1 => ret = first

\* ================================================================ claims: CheckStyleParser

\* The (path, message) pairs of a document, files in document order and
\* errors in document order within each file.
RECURSIVE InDocumentOrder(_, _)
InDocumentOrder(doc, i) ==
  IF i > Len(doc) THEN <<>>
  ELSE [j \in 1..Len(doc[i].errors) |->
          [path |-> doc[i].name, message |-> doc[i].errors[j].message]]
       \o InDocumentOrder(doc, i + 1)

RECURSIVE SumErrors(_, _)
SumErrors(doc, i) ==
  IF i > Len(doc) THEN 0 ELSE Len(doc[i].errors) + SumErrors(doc, i + 1)

WellFormedDocument == csdamage \in {"none", "stray"}

\* C3: Parse on a well-formed document returns a nil error and one CheckResult
\* per error element: as many as the files' error counts sum to, in file order
\* and then error order, each with the Path of its enclosing file.
C3_DocumentOrder ==
  (cspc = "done" /\ WellFormedDocument)
    => /\ csret.err = "nil"
       /\ Len(csret.rs) = SumErrors(csdoc, 1)
       /\ LET want == InDocumentOrder(csdoc, 1) IN
            /\ Len(csret.rs) = Len(want)
            /\ \A k \in 1..Len(want) :
                 /\ csret.rs[k].Diagnostic.Location.Path = want[k].path
                 /\ csret.rs[k].Diagnostic.Message = want[k].message

\* Parse has returned on a document of two differently named files, the first
\* with two errors and the second with one.
C3_Witness ==
  /\ cspc = "done"
  /\ csdamage = "none"
  /\ Len(csdoc) = 2
  /\ csdoc[1].name # csdoc[2].name
  /\ Len(csdoc[1].errors) = 2
  /\ csdoc[1].errors[1] # csdoc[1].errors[2]
  /\ Len(csdoc[2].errors) = 1
  /\ Len(csret.rs) = 3

\* ================================================================ claims: RDJSONLParser

\* The lines of a stream: the text between newlines; the newline that ends the
\* last line begins no further line.
RECURSIVE SourceLines(_)
SourceLines(s) ==
  IF Len(s) = 0 THEN <<>>
  ELSE LET nl == IndexNL(s) IN
       IF nl = 0 THEN <<s>>
       ELSE <<SubSeq(s, 1, nl - 1)>> \o SourceLines(SubSeq(s, nl + 1, Len(s)))

\* A line that decodes as a Diagnostic.
WellFormedLine(line) == Unmarshal(line).ok
ReadToEnd == ~rdfail.fails

\* C4: Parse on a stream of K well-formed lines, read to its end, returns a nil
\* error and K CheckResults in input order, result i holding line i as its only
\* element of Lines and the decoding of line i as its Diagnostic.
C4_OneResultPerLine ==
  LET lines == SourceLines(rdr) IN
  (rdpc = "done" /\ ReadToEnd /\ \A i \in 1..Len(lines) : WellFormedLine(lines[i]))
    => /\ rdret.err = "nil"
       /\ Len(rdret.rs) = Len(lines)
       /\ \A i \in 1..Len(lines) :
            /\ rdret.rs[i].Lines = <<lines[i]>>
            /\ rdret.rs[i].Diagnostic = Unmarshal(lines[i]).d

\* C5: Parse on a stream, read to its end, in which one line is malformed and
\* every other line is well-formed, returns an error and no results.
C5_MalformedLineFailsCall ==
  LET lines == SourceLines(rdr) IN
  (/\ rdpc = "done"
   /\ ReadToEnd
   /\ \E i \in 1..Len(lines) :
        /\ Len(lines[i]) > 0
        /\ ~WellFormedLine(lines[i])
        /\ \A j \in (1..Len(lines)) \ {i} : WellFormedLine(lines[j]))
    => (rdret.err # "nil" /\ rdret.rs = <<>>)

\* The stream is K well-formed lines that fit the scanner's buffer, followed by
\* one or more blank lines.
RecordsThenBlankLines(lines, K) ==
  /\ K < Len(lines)
  /\ \A i \in 1..K : WellFormedLine(lines[i]) /\ ~TooLong(lines[i])
  /\ \A i \in (K + 1)..Len(lines) : Len(lines[i]) = 0

\* C7: Parse on K well-formed records followed by one or more blank lines,
\* read to its end, returns a nil error and exactly K results.
C7_BlankLinesAbsorbed ==
  LET lines == SourceLines(rdr) IN
  \A K \in 1..Len(lines) :
    (rdpc = "done" /\ ReadToEnd /\ RecordsThenBlankLines(lines, K))
      => (rdret.err = "nil" /\ Len(rdret.rs) = K)

\* C8: Parse returns either an error and no results, or a nil error and one
\* result for every line of the whole stream.
C8_NoPartialSuccess ==
  rdpc = "done"
    => \/ (rdret.err # "nil" /\ rdret.rs = <<>>)
       \/ (rdret.err = "nil" /\ Len(rdret.rs) = Len(SourceLines(rdr)))

\* Every line of the stream fits the scanner's buffer and the stream is read to
\* its end: the scanner then delivers every line.
ScannerDeliversAll ==
  /\ ReadToEnd
  /\ \A i \in 1..Len(SourceLines(rdr)) : ~TooLong(SourceLines(rdr)[i])

\* Where the scanner delivers every line, K well-formed lines give K results
\* in order and a malformed line fails the call with no results: the
\* statements of C4 and C5 fail only where the scanner stops early.
HoldsWhereScannerDeliversAll ==
  ScannerDeliversAll => (C4_OneResultPerLine /\ C5_MalformedLineFailsCall)

\* ================================================================ claims: ErrorformatParser

IsValid(e) == e.Valid

====
